---------------------------- MODULE Spec2Model ----------------------------
(***************************************************************************)
(* Study-Buddy backend: the vote ledger (views/vote.py) and the submission *)
(* gate (views/submission.py) over the relational store of models.py.      *)
(*                                                                         *)
(* A table is a set of rows; a row is a record carrying its primary key.   *)
(* A request handler that runs to completion is one action; the response   *)
(* it returns is kept in resp.  Handlers that interleave are split at their*)
(* reads and writes (see the race specifications).                         *)
(***************************************************************************)
EXTENDS Integers, Sequences, FiniteSets, TLC

\* ------------------------------------------------------------------ bounds
MaxUser == 2        \* the registered users are 1..MaxUser
MaxQuestion == 2    \* the questions asked are 1..MaxQuestion
MaxAnswer == 2      \* the answers posted are 1..MaxAnswer
MaxStudent == 1     \* the students the gate is run for are 1..MaxStudent
MaxTime == 2        \* the clock runs from 0 to MaxTime
MaxWorker == 2      \* the requests served at once are 1..MaxWorker
MaxAssignment == 2
MaxSubmission == 2
MaxGrade == 3

VARIABLES
    users,          \* ids of the rows of table users
    questions,      \* rows of table questions
    answers,        \* rows of table answers
    votes,          \* rows of table votes
    units,          \* rows of table units
    assignments,    \* rows of table assignments
    submissions,    \* rows of table submissions
    grades,         \* rows of table grades
    files,          \* names of the files saved under uploads/submissions
    now,            \* datetime.utcnow()
    resp,           \* the response of the last handler that returned
    flight,         \* per worker, the handler it is running and what it has read
    castLog,        \* history: per (user, answer), the run of equal vote_types cast
    trail           \* history: the call that just created a vote, and the table it found

forumVars == <<users, questions, answers>>
gateVars == <<units, assignments, submissions, grades, files, now>>
histVars == <<castLog, trail>>
vars == <<users, questions, answers, votes, units, assignments, submissions, grades,
          files, now,
          resp, flight, castLog, trail>>

\* ------------------------------------------------------------- the store
\* Model.query.get(id): the row, as a set ({} for None).
Get(rows, id) == {r \in rows : r.id = id}

\* Integer primary key of a new Vote: an integer no row of the table carries.
\* No handler reads a vote's id, so which one the store picks is immaterial (a
\* deleted row's key may come back); the least free one of the pair's own
\* series is taken, so that equal tables are equal states.
NewVoteId(vs, user_id, answer_id) ==
    LET stride == (MaxUser + 2) * (MaxAnswer + 2)
        first == user_id * (MaxAnswer + 2) + answer_id + 1
        used == {r.id : r \in vs}
    IN CHOOSE n \in {first + k * stride : k \in 0 .. Cardinality(vs)} :
          /\ n \notin used
          /\ \A k \in 0 .. Cardinality(vs) :
                first + k * stride < n => first + k * stride \in used

\* Request values. In JSON, 0 stands for an absent (or zero) id: both are falsy.
UserIdInputs == 0 .. MaxUser + 1
\* <int:answer_id> of the URL
AnswerIdInputs == 1 .. MaxAnswer + 1
\* "" stands for an absent vote_type (None or empty: both are falsy).
VoteTypeInputs == {"", "up", "down", "sideways"}

\* ------------------------------------------------------------ vote ledger
\* Vote.query.filter_by(user_id=, answer_id=)
VotesOfPair(vs, user_id, answer_id) ==
    {v \in vs : v.user_id = user_id /\ v.answer_id = answer_id}

\* .first(): None ({}) or one of the rows, whichever the store yields first.
First(rows) == IF rows = {} THEN {{}} ELSE {{r} : r \in rows}

\* Vote(user_id=, answer_id=, vote_type=) as db.session.add and commit store it.
NewVote(vs, user_id, answer_id, vote_type) ==
    [id |-> NewVoteId(vs, user_id, answer_id), user_id |-> user_id,
     answer_id |-> answer_id, vote_type |-> vote_type]

\* Lines 31-45: the votes table after the toggle / switch / create branch is
\* committed, with the status and the message. existing is what .first()
\* returned. The delete and the update address the row by its primary key: a
\* delete of a row already gone deletes nothing, an update of one raises
\* StaleDataError (500) and commits nothing.
ToggleVote_InsertOnSwitch(vs, existing, user_id, answer_id, vote_type) ==
    IF existing # {}
    THEN LET ev == CHOOSE v \in existing : TRUE
         IN IF ev.vote_type = vote_type
            THEN [votes |-> {v \in vs : v.id # ev.id}, status |-> 200, outcome |-> "removed"]
            ELSE [votes |-> vs \cup {NewVote(vs, user_id, answer_id, vote_type)},
                  status |-> 200, outcome |-> "changed"]
    ELSE [votes |-> vs \cup {NewVote(vs, user_id, answer_id, vote_type)},
          status |-> 201, outcome |-> "added"]

ToggleVote_RemoveOnSwitch(vs, existing, user_id, answer_id, vote_type) ==
    IF existing # {}
    THEN LET ev == CHOOSE v \in existing : TRUE
         IN [votes |-> {v \in vs : v.id # ev.id}, status |-> 200,
             outcome |-> IF ev.vote_type = vote_type THEN "removed" ELSE "changed"]
    ELSE [votes |-> vs \cup {NewVote(vs, user_id, answer_id, vote_type)},
          status |-> 201, outcome |-> "added"]

ToggleVote_KeepOnRepeat(vs, existing, user_id, answer_id, vote_type) ==
    IF existing # {}
    THEN LET ev == CHOOSE v \in existing : TRUE
         IN [votes |-> {IF v.id = ev.id THEN [v EXCEPT !.vote_type = vote_type] ELSE v :
                            v \in vs},
             status |-> 200, outcome |-> "changed"]
    ELSE [votes |-> vs \cup {NewVote(vs, user_id, answer_id, vote_type)},
          status |-> 201, outcome |-> "added"]

ToggleVote_DeleteByAnswer(vs, existing, user_id, answer_id, vote_type) ==
    IF existing # {}
    THEN LET ev == CHOOSE v \in existing : TRUE
         IN IF ev.vote_type = vote_type
            THEN [votes |-> {v \in vs : v.answer_id # answer_id}, status |-> 200,
                  outcome |-> "removed"]
            ELSE [votes |-> {IF v.id = ev.id THEN [v EXCEPT !.vote_type = vote_type] ELSE v :
                                v \in vs},
                  status |-> 200, outcome |-> "changed"]
    ELSE [votes |-> vs \cup {NewVote(vs, user_id, answer_id, vote_type)},
          status |-> 201, outcome |-> "added"]

ToggleVote(vs, existing, user_id, answer_id, vote_type) ==
    IF existing # {}
    THEN LET ev == CHOOSE v \in existing : TRUE
         IN IF ev.vote_type = vote_type
            THEN [votes |-> {v \in vs : v.id # ev.id}, status |-> 200, outcome |-> "removed"]
            ELSE IF \E v \in vs : v.id = ev.id
            THEN [votes |-> {IF v.id = ev.id THEN [v EXCEPT !.vote_type = vote_type] ELSE v :
                                v \in vs},
                  status |-> 200, outcome |-> "changed"]
            ELSE [votes |-> vs, status |-> 500, outcome |-> "StaleDataError"]
    ELSE [votes |-> vs \cup {NewVote(vs, user_id, answer_id, vote_type)},
          status |-> 201, outcome |-> "added"]

\* jsonify({"message": f"{vote_type}vote <outcome>"}) or jsonify({"error": <outcome>})
VoteResp(status, outcome, vote_type) ==
    [op |-> "vote_answer", status |-> status, outcome |-> outcome, vote_type |-> vote_type]

VoteRejection_NoUserCheck(as, us, answer_id, user_id, vote_type) ==
    IF user_id = 0 \/ vote_type = "" THEN [status |-> 400, error |-> "user_id and vote_type are required"]
    ELSE IF vote_type \notin {"up", "down"} THEN [status |-> 400, error |-> "vote_type must be 'up' or 'down'"]
    ELSE IF Get(as, answer_id) = {} THEN [status |-> 404, error |-> "Answer not found"]
    ELSE [status |-> 0, error |-> ""]

VoteRejection_UserFirst(as, us, answer_id, user_id, vote_type) ==
    IF user_id = 0 \/ vote_type = "" THEN [status |-> 400, error |-> "user_id and vote_type are required"]
    ELSE IF vote_type \notin {"up", "down"} THEN [status |-> 400, error |-> "vote_type must be 'up' or 'down'"]
    ELSE IF user_id \notin us THEN [status |-> 404, error |-> "User not found"]
    ELSE IF Get(as, answer_id) = {} THEN [status |-> 404, error |-> "Answer not found"]
    ELSE [status |-> 0, error |-> ""]

\* Lines 15-26: the error the checks before the lookup end in, "" if none.
VoteRejection(as, us, answer_id, user_id, vote_type) ==
    IF user_id = 0 \/ vote_type = "" THEN [status |-> 400, error |-> "user_id and vote_type are required"]
    ELSE IF vote_type \notin {"up", "down"} THEN [status |-> 400, error |-> "vote_type must be 'up' or 'down'"]
    ELSE IF Get(as, answer_id) = {} THEN [status |-> 404, error |-> "Answer not found"]
    ELSE IF user_id \notin us THEN [status |-> 404, error |-> "User not found"]
    ELSE [status |-> 0, error |-> ""]

\* POST /votes/<answer_id>
vote_answer(answer_id, user_id, vote_type) ==
    /\ UNCHANGED <<forumVars, gateVars, flight>>
    /\ LET rejection == VoteRejection(answers, users, answer_id, user_id, vote_type)
       IN IF rejection.error # ""
          THEN /\ resp' = VoteResp(rejection.status, rejection.error, "")
               /\ UNCHANGED votes
          ELSE \E existing \in First(VotesOfPair(votes, user_id, answer_id)) :
                 LET r == ToggleVote(votes, existing, user_id, answer_id, vote_type)
                 IN /\ votes' = r.votes
                    /\ resp' = VoteResp(r.status, r.outcome,
                                        IF r.status = 500 THEN "" ELSE vote_type)

remove_vote_ByAnswer(answer_id, user_id) ==
    /\ UNCHANGED <<forumVars, gateVars, flight>>
    /\ IF user_id = 0
       THEN /\ resp' = [op |-> "remove_vote", status |-> 400]
            /\ UNCHANGED votes
       ELSE IF VotesOfPair(votes, user_id, answer_id) = {}
       THEN /\ resp' = [op |-> "remove_vote", status |-> 404]
            /\ UNCHANGED votes
       ELSE /\ votes' = {v \in votes : v.answer_id # answer_id}
            /\ resp' = [op |-> "remove_vote", status |-> 200]

\* DELETE /votes/<answer_id>
remove_vote(answer_id, user_id) ==
    /\ UNCHANGED <<forumVars, gateVars, flight>>
    /\ IF user_id = 0
       THEN /\ resp' = [op |-> "remove_vote", status |-> 400]
            /\ UNCHANGED votes
       ELSE IF VotesOfPair(votes, user_id, answer_id) = {}
       THEN /\ resp' = [op |-> "remove_vote", status |-> 404]
            /\ UNCHANGED votes
       ELSE \E vote \in First(VotesOfPair(votes, user_id, answer_id)) :
              /\ votes' = votes \ vote
              /\ resp' = [op |-> "remove_vote", status |-> 200]

\* Vote.query.filter_by(answer_id=, vote_type=).count()
CountVotes_AnyType(vs, answer_id, vote_type) ==
    Cardinality({v \in vs : v.answer_id = answer_id})

CountVotes(vs, answer_id, vote_type) ==
    Cardinality({v \in vs : v.answer_id = answer_id /\ v.vote_type = vote_type})

\* GET /votes/<answer_id>, lines 57-65
Tally(vs, answer_id) ==
    LET upvotes == CountVotes(vs, answer_id, "up")
        downvotes == CountVotes(vs, answer_id, "down")
    IN [upvotes |-> upvotes, downvotes |-> downvotes, total_score |-> upvotes - downvotes]

get_votes(answer_id) ==
    /\ UNCHANGED <<forumVars, votes, gateVars, flight>>
    /\ IF Get(answers, answer_id) = {}
       THEN resp' = [op |-> "get_votes", status |-> 404, answer_id |-> answer_id]
       ELSE resp' = [op |-> "get_votes", status |-> 200, answer_id |-> answer_id,
                     upvotes |-> Tally(votes, answer_id).upvotes,
                     downvotes |-> Tally(votes, answer_id).downvotes,
                     total_score |-> Tally(votes, answer_id).total_score]

\* GET /votes/top-answers?question_id=
\* The orders in which query.all() may yield a set of rows.
AllOrders(rows) ==
    {f \in [1 .. Cardinality(rows) -> rows] :
        \A i, j \in 1 .. Cardinality(rows) : i # j => f[i] # f[j]}

RankEntry_ScoreOfAllVotes(vs, a) ==
    LET upvotes == CountVotes(vs, a.id, "up")
        downvotes == CountVotes(vs, a.id, "down")
    IN [answer_id |-> a.id, question_id |-> a.question_id, author_id |-> a.author_id,
        upvotes |-> upvotes, downvotes |-> downvotes, score |-> upvotes + downvotes]

\* One entry of data, lines 106-119.
RankEntry(vs, a) ==
    LET upvotes == CountVotes(vs, a.id, "up")
        downvotes == CountVotes(vs, a.id, "down")
    IN [answer_id |-> a.id, question_id |-> a.question_id, author_id |-> a.author_id,
        upvotes |-> upvotes, downvotes |-> downvotes, score |-> upvotes - downvotes]

\* sorted(data, key=score, reverse=True) is stable: x goes behind every entry
\* already placed whose score is not lower.
InsertByScore_Ascending(s, x) ==
    LET k == Cardinality({i \in 1 .. Len(s) : s[i].score <= x.score})
    IN SubSeq(s, 1, k) \o <<x>> \o SubSeq(s, k + 1, Len(s))

InsertByScore(s, x) ==
    LET k == Cardinality({i \in 1 .. Len(s) : s[i].score >= x.score})
    IN SubSeq(s, 1, k) \o <<x>> \o SubSeq(s, k + 1, Len(s))

RECURSIVE SortedByScore(_)
SortedByScore(data) ==
    IF data = <<>> THEN <<>>
    ELSE InsertByScore(SortedByScore(SubSeq(data, 1, Len(data) - 1)), data[Len(data)])

\* question_id is [given, val]: the query parameter parsed by type=int, None if absent.
NoQuestionId == [given |-> FALSE, val |-> 0]
QuestionIdInputs ==
    {NoQuestionId} \cup {[given |-> TRUE, val |-> q] : q \in 0 .. MaxQuestion + 1}

\* Lines 99-103; "if question_id:" is false for None and for 0.
Candidates(as, question_id) ==
    IF question_id.given /\ question_id.val # 0
    THEN {a \in as : a.question_id = question_id.val}
    ELSE as

get_top_answers(question_id) ==
    /\ UNCHANGED <<forumVars, votes, gateVars, flight>>
    /\ \E order \in AllOrders(Candidates(answers, question_id)) :
         LET data == SortedByScore([i \in 1 .. Len(order) |-> RankEntry(votes, order[i])])
         IN resp' = [op |-> "get_top_answers", status |-> 200,
                     total_answers |-> Len(data), answers |-> data]


\* ------------------------------------------------------ the initial store
Pairs == (1 .. MaxUser) \X (1 .. MaxAnswer)

\* The run of equal vote_types cast on a pair: its type and its length's parity.
NoRun == [vote_type |-> "", odd |-> FALSE]
NoCall == [op |-> "none"]
NoResp == [op |-> "none", status |-> 0]

\* A forum as create_user, create_question and create_answer leave it: MaxUser
\* users, each question asked and each answer posted by one of them, the answers
\* dealt over the questions.
InitForum ==
    /\ users = 1 .. MaxUser
    /\ questions = {[id |-> q, author_id |-> ((q - 1) % MaxUser) + 1] :
                        q \in 1 .. MaxQuestion}
    /\ answers = {[id |-> a, question_id |-> ((a - 1) % MaxQuestion) + 1,
                   author_id |-> (a % MaxUser) + 1] : a \in 1 .. MaxAnswer}

NoGate ==
    /\ units = {}
    /\ assignments = {}
    /\ submissions = {}
    /\ grades = {}
    /\ files = {}
    /\ now = 0

\* trail: the cast that created the pair's vote in the last step (call) with the
\* votes table it found, or, one step on, that the same cast was made again
\* (twice).
NoTrail == [call |-> NoCall, votes |-> {}, twice |-> FALSE]

NoHistory ==
    /\ castLog = [p \in Pairs |-> NoRun]
    /\ trail = NoTrail

\* --------------------------------------- the vote ledger, one call at a time
Init ==
    /\ InitForum
    /\ votes = {}
    /\ NoGate
    /\ resp = NoResp
    /\ flight = <<>>
    /\ NoHistory

CastVote == \E a \in AnswerIdInputs, u \in UserIdInputs, t \in VoteTypeInputs :
    vote_answer(a, u, t) /\ UNCHANGED histVars

RemoveVote == \E a \in AnswerIdInputs, u \in UserIdInputs :
    remove_vote(a, u) /\ UNCHANGED histVars

Next == CastVote \/ RemoveVote

Spec == Init /\ [][Next]_vars

\* ------------------------------------------- tally and rank, over any ledger
\* The votes tables the ledger reaches: per pair no vote, an up or a down vote.
RECURSIVE TableOf(_, _)
TableOf(cast, pairs) ==
    IF pairs = {} THEN {}
    ELSE LET p == CHOOSE x \in pairs : TRUE
             rest == TableOf(cast, pairs \ {p})
         IN IF cast[p] = "" THEN rest
            ELSE rest \cup {NewVote(rest, p[1], p[2], cast[p])}

InitRank ==
    /\ InitForum
    /\ votes \in {TableOf(cast, Pairs) : cast \in [Pairs -> {"", "up", "down"}]}
    /\ NoGate
    /\ resp = NoResp
    /\ flight = <<>>
    /\ NoHistory

GetVotes == \E a \in AnswerIdInputs : get_votes(a) /\ UNCHANGED histVars

GetTopAnswers == \E q \in QuestionIdInputs : get_top_answers(q) /\ UNCHANGED histVars

NextRank == GetVotes \/ GetTopAnswers

SpecRank == InitRank /\ [][NextRank]_vars


\* ------------------------------------- the vote ledger, with its history
\* A cast of vote_type lengthens the pair's run of equal vote_types or starts one.
Cast(run, vote_type) ==
    IF run.vote_type = vote_type
    THEN [run EXCEPT !.odd = ~run.odd]
    ELSE [vote_type |-> vote_type, odd |-> TRUE]

CastVoteLogged == \E a \in AnswerIdInputs, u \in UserIdInputs, t \in VoteTypeInputs :
    /\ vote_answer(a, u, t)
    /\ castLog' = IF resp'.status \in {200, 201}
                  THEN [castLog EXCEPT ![<<u, a>>] = Cast(castLog[<<u, a>>], t)]
                  ELSE castLog
    /\ trail' = LET call == [op |-> "vote_answer", answer_id |-> a, user_id |-> u,
                             vote_type |-> t]
                IN IF resp'.status = 201
                   THEN [call |-> call, votes |-> votes, twice |-> FALSE]
                   ELSE IF trail.call = call
                   THEN [call |-> NoCall, votes |-> trail.votes, twice |-> TRUE]
                   ELSE NoTrail

\* remove_vote ends the pair's sequence of casts: the next cast starts a new one.
RemoveVoteLogged == \E a \in AnswerIdInputs, u \in UserIdInputs :
    /\ remove_vote(a, u)
    /\ castLog' = IF resp'.status = 200 THEN [castLog EXCEPT ![<<u, a>>] = NoRun]
                  ELSE castLog
    /\ trail' = NoTrail

NextLogged == CastVoteLogged \/ RemoveVoteLogged

SpecLogged == Init /\ [][NextLogged]_vars

\* -------------------------------------------------------- submission gate
\* A form field that may be absent (None or empty: both are falsy).
NoId == [given |-> FALSE, val |-> 0]
Id(n) == [given |-> TRUE, val |-> n]
\* A nullable DateTime column.
NoDate == [set |-> FALSE, at |-> 0]
Date(t) == [set |-> TRUE, at |-> t]

\* A file name is the sequence of its parts between the dots ("hw.pdf" is
\* <<"hw", "pdf">>), which is what filename.split(".") yields; <<>> stands for
\* no file part in the request, <<"">> for a file part with an empty name.
NoFile == <<>>
\* bool(file): a FileStorage is falsy when its filename is empty.
FilePresent(file) == file # NoFile /\ file # <<"">>

\* str.lower() on the parts used.
Lower(part) == CASE part = "PDF" -> "pdf" [] part = "EXE" -> "exe" [] OTHER -> part

allowed_ext == {"pdf", "docx", "jpg", "jpeg", "png"}

\* file.filename.split(".")[-1].lower()
Ext(file) == Lower(file[Len(file)])

StudentIdInputs == {NoId} \cup {Id(n) : n \in 1 .. MaxStudent + 1}
AssignmentIdInputs == {NoId} \cup {Id(n) : n \in 1 .. 2}
ContentInputs == {"", "essay"}
FileInputs == {NoFile, <<"">>, <<"hw", "pdf">>, <<"hw", "exe">>}

MaxAttempts == 3

\* Submission.query.filter_by(student_id=, assignment_id=)
SubmissionsOfPair(subs, student_id, assignment_id) ==
    {x \in subs : x.student_id = student_id /\ x.assignment_id = assignment_id}

\* Primary key of a new Submission: an integer no row of the table carries, the
\* least free one of the pair's own series (see NewVoteId).
NewSubmissionId(subs, student_id, assignment_id) ==
    LET stride == (MaxStudent + 2) * 3
        first == student_id * 3 + assignment_id + 1
        used == {r.id : r \in subs}
    IN CHOOSE n \in {first + k * stride : k \in 0 .. Cardinality(subs)} :
          /\ n \notin used
          /\ \A k \in 0 .. Cardinality(subs) :
                first + k * stride < n => first + k * stride \in used

\* Line 43: attempts >= 3
AtLimit_OffByOne(attempts) == attempts > MaxAttempts

AtLimit(attempts) == attempts >= MaxAttempts

\* Line 33: datetime.utcnow() > assignment.due_date
PastDeadline_AtDueDate(clock, due_date) == clock >= due_date.at

PastDeadline(clock, due_date) == clock > due_date.at

\* Lines 21-56: the first check that fails, as (status, error); error "" if none
\* does. attempts is the count read at line 42.
GateRejection_StudentFirst(asg, us, clock, attempts, student_id, assignment_id, content, file) ==
    IF ~student_id.given \/ ~assignment_id.given
    THEN [status |-> 400, error |-> "student_id and assignment_id are required"]
    ELSE IF Get(asg, assignment_id.val) = {}
    THEN [status |-> 404, error |-> "Assignment not found"]
    ELSE IF student_id.val \notin us
    THEN [status |-> 404, error |-> "Student not found"]
    ELSE LET assignment == CHOOSE a \in asg : a.id = assignment_id.val
         IN IF ~assignment.is_active
            THEN [status |-> 400, error |-> "Assignment is not active"]
            ELSE IF ~assignment.due_date.set
            THEN [status |-> 400, error |-> "Assignment due_date not set"]
            ELSE IF PastDeadline(clock, assignment.due_date)
            THEN [status |-> 400, error |-> "Submission deadline has passed"]
            ELSE IF AtLimit(attempts)
            THEN [status |-> 400, error |-> "You have reached the maximum of 3 submission attempts"]
            ELSE IF content = "" /\ ~FilePresent(file)
            THEN [status |-> 400, error |-> "You must submit either text content or a file"]
            ELSE IF FilePresent(file) /\ Ext(file) \notin allowed_ext
            THEN [status |-> 400, error |-> "Invalid file type"]
            ELSE [status |-> 0, error |-> ""]

GateRejection_ContentFirst(asg, us, clock, attempts, student_id, assignment_id, content, file) ==
    IF ~student_id.given \/ ~assignment_id.given
    THEN [status |-> 400, error |-> "student_id and assignment_id are required"]
    ELSE IF content = "" /\ ~FilePresent(file)
    THEN [status |-> 400, error |-> "You must submit either text content or a file"]
    ELSE IF Get(asg, assignment_id.val) = {}
    THEN [status |-> 404, error |-> "Assignment not found"]
    ELSE LET assignment == CHOOSE a \in asg : a.id = assignment_id.val
         IN IF ~assignment.is_active
            THEN [status |-> 400, error |-> "Assignment is not active"]
            ELSE IF ~assignment.due_date.set
            THEN [status |-> 400, error |-> "Assignment due_date not set"]
            ELSE IF PastDeadline(clock, assignment.due_date)
            THEN [status |-> 400, error |-> "Submission deadline has passed"]
            ELSE IF student_id.val \notin us
            THEN [status |-> 404, error |-> "Student not found"]
            ELSE IF AtLimit(attempts)
            THEN [status |-> 400, error |-> "You have reached the maximum of 3 submission attempts"]
            ELSE IF FilePresent(file) /\ Ext(file) \notin allowed_ext
            THEN [status |-> 400, error |-> "Invalid file type"]
            ELSE [status |-> 0, error |-> ""]

GateRejection_LimitLast(asg, us, clock, attempts, student_id, assignment_id, content, file) ==
    IF ~student_id.given \/ ~assignment_id.given
    THEN [status |-> 400, error |-> "student_id and assignment_id are required"]
    ELSE IF Get(asg, assignment_id.val) = {}
    THEN [status |-> 404, error |-> "Assignment not found"]
    ELSE LET assignment == CHOOSE a \in asg : a.id = assignment_id.val
         IN IF ~assignment.is_active
            THEN [status |-> 400, error |-> "Assignment is not active"]
            ELSE IF ~assignment.due_date.set
            THEN [status |-> 400, error |-> "Assignment due_date not set"]
            ELSE IF PastDeadline(clock, assignment.due_date)
            THEN [status |-> 400, error |-> "Submission deadline has passed"]
            ELSE IF student_id.val \notin us
            THEN [status |-> 404, error |-> "Student not found"]
            ELSE IF content = "" /\ ~FilePresent(file)
            THEN [status |-> 400, error |-> "You must submit either text content or a file"]
            ELSE IF FilePresent(file) /\ Ext(file) \notin allowed_ext
            THEN [status |-> 400, error |-> "Invalid file type"]
            ELSE IF AtLimit(attempts)
            THEN [status |-> 400, error |-> "You have reached the maximum of 3 submission attempts"]
            ELSE [status |-> 0, error |-> ""]

GateRejection(asg, us, clock, attempts, student_id, assignment_id, content, file) ==
    IF ~student_id.given \/ ~assignment_id.given
    THEN [status |-> 400, error |-> "student_id and assignment_id are required"]
    ELSE IF Get(asg, assignment_id.val) = {}
    THEN [status |-> 404, error |-> "Assignment not found"]
    ELSE LET assignment == CHOOSE a \in asg : a.id = assignment_id.val
         IN IF ~assignment.is_active
            THEN [status |-> 400, error |-> "Assignment is not active"]
            ELSE IF ~assignment.due_date.set
            THEN [status |-> 400, error |-> "Assignment due_date not set"]
            ELSE IF PastDeadline(clock, assignment.due_date)
            THEN [status |-> 400, error |-> "Submission deadline has passed"]
            ELSE IF student_id.val \notin us
            THEN [status |-> 404, error |-> "Student not found"]
            ELSE IF AtLimit(attempts)
            THEN [status |-> 400, error |-> "You have reached the maximum of 3 submission attempts"]
            ELSE IF content = "" /\ ~FilePresent(file)
            THEN [status |-> 400, error |-> "You must submit either text content or a file"]
            ELSE IF FilePresent(file) /\ Ext(file) \notin allowed_ext
            THEN [status |-> 400, error |-> "Invalid file type"]
            ELSE [status |-> 0, error |-> ""]

SavedName_AttemptsSoFar(student_id, assignment_id, attempts, file) ==
    [student |-> student_id, assignment |-> assignment_id, attempt |-> attempts,
     filename |-> file]

\* Line 59: the name the file is saved under.
SavedName(student_id, assignment_id, attempts, file) ==
    [student |-> student_id, assignment |-> assignment_id, attempt |-> attempts + 1,
     filename |-> file]

\* Lines 51-71: the Submission built, file_path None (<<>>) without a file.
NewSubmission(subs, student_id, assignment_id, content, file, attempts) ==
    [id |-> NewSubmissionId(subs, student_id, assignment_id),
     student_id |-> student_id, assignment_id |-> assignment_id, content |-> content,
     file_path |-> IF FilePresent(file)
                   THEN <<SavedName(student_id, assignment_id, attempts, file)>>
                   ELSE <<>>]

SubmitResp(status, outcome, attempt) ==
    [op |-> "submit_assignment", status |-> status, outcome |-> outcome, attempt |-> attempt]

SubmitWrite_ReplaceLast(student_id, assignment_id, content, file, attempts) ==
    /\ files' = IF FilePresent(file)
                THEN files \cup {SavedName(student_id, assignment_id, attempts, file)}
                ELSE files
    /\ submissions' = (submissions \ SubmissionsOfPair(submissions, student_id, assignment_id))
           \cup {NewSubmission(submissions, student_id, assignment_id, content, file, attempts)}
    /\ resp' = SubmitResp(201, "Submission successful", attempts + 1)

SubmitWrite_ReportsCount(student_id, assignment_id, content, file, attempts) ==
    /\ files' = IF FilePresent(file)
                THEN files \cup {SavedName(student_id, assignment_id, attempts, file)}
                ELSE files
    /\ submissions' = submissions \cup
           {NewSubmission(submissions, student_id, assignment_id, content, file, attempts)}
    /\ resp' = SubmitResp(201, "Submission successful", attempts)

\* Lines 58-80, with attempts as it was read at line 42.
SubmitWrite(student_id, assignment_id, content, file, attempts) ==
    /\ files' = IF FilePresent(file)
                THEN files \cup {SavedName(student_id, assignment_id, attempts, file)}
                ELSE files
    /\ submissions' = submissions \cup
           {NewSubmission(submissions, student_id, assignment_id, content, file, attempts)}
    /\ resp' = SubmitResp(201, "Submission successful", attempts + 1)

\* Line 42
Attempts(subs, student_id, assignment_id) ==
    Cardinality(SubmissionsOfPair(subs, student_id.val, assignment_id.val))

submit_assignment_SaveFirst(student_id, assignment_id, content, file) ==
    /\ UNCHANGED <<forumVars, votes, units, assignments, grades, now, flight>>
    /\ LET attempts == Attempts(submissions, student_id, assignment_id)
           rejection == GateRejection(assignments, users, now, attempts,
                                      student_id, assignment_id, content, file)
       IN IF rejection.error # ""
          THEN /\ resp' = SubmitResp(rejection.status, rejection.error, 0)
               /\ files' = IF rejection.error = "Invalid file type"
                           THEN files \cup {SavedName(student_id.val, assignment_id.val,
                                                      attempts, file)}
                           ELSE files
               /\ UNCHANGED submissions
          ELSE SubmitWrite(student_id.val, assignment_id.val, content, file, attempts)

\* POST /submissions, run to completion
submit_assignment(student_id, assignment_id, content, file) ==
    /\ UNCHANGED <<forumVars, votes, units, assignments, grades, now, flight>>
    /\ LET attempts == Attempts(submissions, student_id, assignment_id)
           rejection == GateRejection(assignments, users, now, attempts,
                                      student_id, assignment_id, content, file)
       IN IF rejection.error # ""
          THEN /\ resp' = SubmitResp(rejection.status, rejection.error, 0)
               /\ UNCHANGED <<submissions, files>>
          ELSE SubmitWrite(student_id.val, assignment_id.val, content, file, attempts)

toggle_assignment_Deactivate(assignment_id) ==
    /\ UNCHANGED <<forumVars, votes, units, submissions, grades, files, now, flight>>
    /\ IF Get(assignments, assignment_id) = {}
       THEN /\ resp' = [op |-> "toggle_assignment", status |-> 404]
            /\ UNCHANGED assignments
       ELSE /\ assignments' = {IF a.id = assignment_id
                               THEN [a EXCEPT !.is_active = FALSE]
                               ELSE a : a \in assignments}
            /\ resp' = [op |-> "toggle_assignment", status |-> 200]

\* PATCH /assignments/<assignment_id>/toggle
toggle_assignment(assignment_id) ==
    /\ UNCHANGED <<forumVars, votes, units, submissions, grades, files, now, flight>>
    /\ IF Get(assignments, assignment_id) = {}
       THEN /\ resp' = [op |-> "toggle_assignment", status |-> 404]
            /\ UNCHANGED assignments
       ELSE /\ assignments' = {IF a.id = assignment_id
                               THEN [a EXCEPT !.is_active = ~a.is_active]
                               ELSE a : a \in assignments}
            /\ resp' = [op |-> "toggle_assignment", status |-> 200]

\* datetime.utcnow() moves on.
Tick ==
    /\ now < MaxTime
    /\ now' = now + 1
    /\ UNCHANGED <<forumVars, votes, units, assignments, submissions, grades, files, resp, flight,
                   histVars>>

\* One assignment as create_assignment makes it (active, due at 1), or one the
\* schema admits and submit_assignment checks for: with no due_date (the column
\* is nullable); students 1..MaxStudent registered.
InitGate ==
    /\ users = 1 .. MaxStudent
    /\ questions = {} /\ answers = {} /\ votes = {}
    /\ units = {}
    /\ assignments \in {{[id |-> 1, is_active |-> TRUE, due_date |-> d]} :
                            d \in {NoDate, Date(1)}}
    /\ submissions = {}
    /\ grades = {}
    /\ files = {}
    /\ now = 0
    /\ resp = NoResp
    /\ flight = <<>>
    /\ NoHistory

Submit == \E s \in StudentIdInputs, a \in AssignmentIdInputs, c \in ContentInputs,
             f \in FileInputs :
    submit_assignment(s, a, c, f) /\ UNCHANGED histVars

Toggle == \E a \in 1 .. 2 : toggle_assignment(a) /\ UNCHANGED histVars

NextGate == Submit \/ Toggle \/ Tick

SpecGate == InitGate /\ [][NextGate]_vars

\* The gate with the clock of the last accepted submit_assignment call kept in
\* trail.
Accepted(call) == IF resp'.status = 201
                  THEN [call |-> call, votes |-> {}, twice |-> FALSE]
                  ELSE NoTrail

SubmitLogged == \E s \in StudentIdInputs, a \in AssignmentIdInputs, c \in ContentInputs,
                   f \in FileInputs :
    /\ submit_assignment(s, a, c, f)
    /\ trail' = Accepted([op |-> "submit_assignment", assignment_id |-> a, at |-> now])
    /\ UNCHANGED castLog

NextGateLogged == SubmitLogged \/ Toggle \/ Tick

SpecGateLogged == InitGate /\ [][NextGateLogged]_vars

\* Uploads under names of every shape: no dot, an allowed extension in either
\* case, another extension, a trailing dot.
FileNameInputs == {NoFile, <<"pdf">>, <<"hw">>, <<"hw", "pdf">>, <<"hw", "PDF">>,
                   <<"hw", "exe">>, <<"hw", "">>}

SubmitFile == \E s \in StudentIdInputs, a \in AssignmentIdInputs, c \in ContentInputs,
                 f \in FileNameInputs :
    submit_assignment(s, a, c, f) /\ UNCHANGED histVars

NextFile == SubmitFile

SpecFile == InitGate /\ [][NextFile]_vars

\* The gate with the course of the toggles kept in trail: stage 1 once the
\* assignment has been switched off (was holds the table before that), 2 once
\* a call has been turned away as inactive, 3 and 4 once it has been switched
\* on again from 1 and from 2, 5 once a call has been accepted after 4.
Stage(t) == IF t.call.op = "toggle_assignment" THEN t.call.stage ELSE 0

Staged(n, was) ==
    [call |-> [op |-> "toggle_assignment", stage |-> n, was |-> was],
     votes |-> {}, twice |-> FALSE]

ToggleStaged == \E a \in 1 .. 2 :
    /\ toggle_assignment(a)
    /\ trail' = IF resp'.status # 200 THEN trail
                ELSE IF \E x \in assignments' : x.id = a /\ ~x.is_active
                THEN Staged(1, assignments)
                ELSE IF Stage(trail) = 1 THEN Staged(3, trail.call.was)
                ELSE IF Stage(trail) = 2 THEN Staged(4, trail.call.was)
                ELSE NoTrail
    /\ UNCHANGED castLog

SubmitStaged == \E s \in StudentIdInputs, a \in AssignmentIdInputs, c \in ContentInputs,
                   f \in FileInputs :
    /\ submit_assignment(s, a, c, f)
    /\ trail' = IF Stage(trail) = 1 /\ resp' = SubmitResp(400, "Assignment is not active", 0)
                THEN Staged(2, trail.call.was)
                ELSE IF Stage(trail) = 4 /\ resp'.status = 201
                THEN Staged(5, trail.call.was)
                ELSE trail
    /\ UNCHANGED castLog

NextGateStaged == SubmitStaged \/ ToggleStaged \/ Tick

SpecGateStaged == InitGate /\ [][NextGateStaged]_vars

\* ------------------------------------------------ requests served at once
\* app.run serves each request on a thread of its own, each with its own
\* session on the one database: between a request's query and its commit the
\* other requests' queries and commits take place. flight[w] is where request
\* w stands: idle, or past its query with its arguments and what the query
\* returned.
Workers == 1 .. MaxWorker
Idle == [pc |-> "idle"]

\* vote.py lines 11-29: the checks, then the lookup of the pair's vote.
VoteRead(w, answer_id, user_id, vote_type) ==
    /\ flight[w] = Idle
    /\ UNCHANGED <<forumVars, gateVars, votes, histVars>>
    /\ LET rejection == VoteRejection(answers, users, answer_id, user_id, vote_type)
       IN IF rejection.error # ""
          THEN /\ resp' = VoteResp(rejection.status, rejection.error, "")
               /\ UNCHANGED flight
          ELSE /\ \E existing \in First(VotesOfPair(votes, user_id, answer_id)) :
                     flight' = [flight EXCEPT ![w] =
                                   [pc |-> "vote_answer", answer_id |-> answer_id,
                                    user_id |-> user_id, vote_type |-> vote_type,
                                    existing |-> existing]]
               /\ UNCHANGED resp

\* vote.py lines 31-45: the branch chosen on what the lookup returned, committed
\* to the table as it is by now.
VoteCommit(w) ==
    /\ flight[w].pc = "vote_answer"
    /\ UNCHANGED <<forumVars, gateVars, histVars>>
    /\ LET f == flight[w]
           r == ToggleVote(votes, f.existing, f.user_id, f.answer_id, f.vote_type)
       IN /\ votes' = r.votes
          /\ resp' = VoteResp(r.status, r.outcome,
                              IF r.status = 500 THEN "" ELSE f.vote_type)
    /\ flight' = [flight EXCEPT ![w] = Idle]

\* The forum with one question and the one answer to it that the requests race
\* to vote on.
InitVoteRace ==
    /\ users = 1 .. MaxUser
    /\ questions = {[id |-> 1, author_id |-> 1]}
    /\ answers = {[id |-> 1, question_id |-> 1, author_id |-> 1]}
    /\ votes = {}
    /\ NoGate
    /\ resp = NoResp
    /\ flight = [w \in Workers |-> Idle]
    /\ NoHistory

VoteQuery == \E w \in Workers, a \in AnswerIdInputs, u \in UserIdInputs, t \in VoteTypeInputs :
    VoteRead(w, a, u, t)

VoteWrite == \E w \in Workers : VoteCommit(w)

NextVoteRace == VoteQuery \/ VoteWrite

SpecVoteRace == InitVoteRace /\ [][NextVoteRace]_vars

\* submission.py lines 16-56: the checks, with the count of the pair's
\* submissions read at line 42.
SubmitRead(w, student_id, assignment_id, content, file) ==
    /\ flight[w] = Idle
    /\ UNCHANGED <<forumVars, gateVars, votes, histVars>>
    /\ LET attempts == Attempts(submissions, student_id, assignment_id)
           rejection == GateRejection(assignments, users, now, attempts,
                                      student_id, assignment_id, content, file)
       IN IF rejection.error # ""
          THEN /\ resp' = SubmitResp(rejection.status, rejection.error, 0)
               /\ UNCHANGED flight
          ELSE /\ flight' = [flight EXCEPT ![w] =
                                [pc |-> "submit_assignment", student_id |-> student_id.val,
                                 assignment_id |-> assignment_id.val, content |-> content,
                                 file |-> file, attempts |-> attempts]]
               /\ UNCHANGED resp

\* submission.py lines 58-80: the file saved and the row inserted, numbered from
\* the count read before.
SubmitCommit(w) ==
    /\ flight[w].pc = "submit_assignment"
    /\ UNCHANGED <<forumVars, votes, units, assignments, grades, now, histVars>>
    /\ LET f == flight[w]
       IN SubmitWrite(f.student_id, f.assignment_id, f.content, f.file, f.attempts)
    /\ flight' = [flight EXCEPT ![w] = Idle]

InitSubmitRace ==
    /\ users = 1 .. MaxStudent
    /\ questions = {} /\ answers = {} /\ votes = {}
    /\ units = {}
    /\ assignments = {[id |-> 1, is_active |-> TRUE, due_date |-> Date(1)]}
    /\ submissions = {}
    /\ grades = {}
    /\ files = {}
    /\ now = 0
    /\ resp = NoResp
    /\ flight = [w \in Workers |-> Idle]
    /\ NoHistory

SubmitQuery == \E w \in Workers, s \in StudentIdInputs, a \in AssignmentIdInputs,
                  c \in ContentInputs, f \in FileInputs :
    SubmitRead(w, s, a, c, f)

SubmitInsert == \E w \in Workers : SubmitCommit(w)

NextSubmitRace == SubmitQuery \/ SubmitInsert

SpecSubmitRace == InitSubmitRace /\ [][NextSubmitRace]_vars

\* ------------------------------------------------------------- deletions
\* db.session.delete(row) deletes with the row the rows of its relationships
\* declared cascade="all, delete-orphan" (models.py), and theirs in turn.

\* Submission.grade (models.py line 191): the grades left with the submissions
\* subs.
GradesLeft(gs, subs) == {g \in gs : g.submission_id \in {x.id : x \in subs}}

\* Answer.votes (models.py line 156): the votes left when answers gone are deleted.
VotesLeft(vs, gone) == {v \in vs : v.answer_id \notin {a.id : a \in gone}}

\* Question.answers (models.py line 132)
AnswersOf(as, qs) == {a \in as : a.question_id \in {q.id : q \in qs}}

AuthorIdInputs == 0 .. MaxUser + 1

delete_answer_NoCascade(answer_id, author_id) ==
    /\ UNCHANGED <<users, questions, votes, gateVars, flight>>
    /\ IF author_id = 0
       THEN resp' = [op |-> "delete_answer", status |-> 400] /\ UNCHANGED answers
       ELSE IF Get(answers, answer_id) = {}
       THEN resp' = [op |-> "delete_answer", status |-> 404] /\ UNCHANGED answers
       ELSE LET answer == CHOOSE a \in answers : a.id = answer_id
            IN IF answer.author_id # author_id
               THEN resp' = [op |-> "delete_answer", status |-> 403] /\ UNCHANGED answers
               ELSE /\ answers' = answers \ {answer}
                    /\ resp' = [op |-> "delete_answer", status |-> 200]

\* DELETE /answers/<answer_id>
delete_answer(answer_id, author_id) ==
    /\ UNCHANGED <<users, questions, gateVars, flight>>
    /\ IF author_id = 0
       THEN resp' = [op |-> "delete_answer", status |-> 400] /\ UNCHANGED <<answers, votes>>
       ELSE IF Get(answers, answer_id) = {}
       THEN resp' = [op |-> "delete_answer", status |-> 404] /\ UNCHANGED <<answers, votes>>
       ELSE LET answer == CHOOSE a \in answers : a.id = answer_id
            IN IF answer.author_id # author_id
               THEN /\ resp' = [op |-> "delete_answer", status |-> 403]
                    /\ UNCHANGED <<answers, votes>>
               ELSE /\ answers' = answers \ {answer}
                    /\ votes' = VotesLeft(votes, {answer})
                    /\ resp' = [op |-> "delete_answer", status |-> 200]

\* DELETE /questions/<question_id>
delete_question(question_id, author_id) ==
    /\ UNCHANGED <<users, gateVars, flight>>
    /\ IF Get(questions, question_id) = {}
       THEN /\ resp' = [op |-> "delete_question", status |-> 404]
            /\ UNCHANGED <<questions, answers, votes>>
       ELSE IF author_id = 0
       THEN /\ resp' = [op |-> "delete_question", status |-> 400]
            /\ UNCHANGED <<questions, answers, votes>>
       ELSE LET question == CHOOSE q \in questions : q.id = question_id
                gone == AnswersOf(answers, {question})
            IN IF question.author_id # author_id
               THEN /\ resp' = [op |-> "delete_question", status |-> 403]
                    /\ UNCHANGED <<questions, answers, votes>>
               ELSE /\ questions' = questions \ {question}
                    /\ answers' = answers \ gone
                    /\ votes' = VotesLeft(votes, gone)
                    /\ resp' = [op |-> "delete_question", status |-> 200]

delete_user_KeepVotes(user_id) ==
    /\ UNCHANGED <<files, now, flight>>
    /\ IF user_id \notin users
       THEN /\ resp' = [op |-> "delete_user", status |-> 404]
            /\ UNCHANGED <<users, questions, answers, votes, units, assignments, submissions,
                           grades>>
       ELSE LET qGone == {q \in questions : q.author_id = user_id}
                aGone == {a \in answers : a.author_id = user_id} \cup AnswersOf(answers, qGone)
                uGone == {u \in units : u.instructor_id = user_id}
                asgGone == {x \in assignments : x.unit_id \in {u.id : u \in uGone}}
                subsLeft == {x \in submissions :
                                /\ x.student_id # user_id
                                /\ x.assignment_id \notin {y.id : y \in asgGone}}
                gradesLeft == GradesLeft(grades, subsLeft)
            IN IF \E g \in gradesLeft : g.instructor_id = user_id
               THEN /\ resp' = [op |-> "delete_user", status |-> 500]
                    /\ UNCHANGED <<users, questions, answers, votes, units, assignments,
                                   submissions, grades>>
               ELSE /\ users' = users \ {user_id}
                    /\ questions' = questions \ qGone
                    /\ answers' = answers \ aGone
                    /\ votes' = VotesLeft(votes, aGone)
                    /\ units' = units \ uGone
                    /\ assignments' = assignments \ asgGone
                    /\ submissions' = subsLeft
                    /\ grades' = gradesLeft
                    /\ resp' = [op |-> "delete_user", status |-> 200]

\* DELETE /users/<user_id>: with the user go the questions and answers they
\* wrote, their votes and submissions and the units they teach (models.py
\* lines 46-53), and what hangs on those. User.given_grades (line 50) has no
\* cascade: a grade the user gave that stays behind would lose its
\* instructor_id, which is NOT NULL, so the commit fails and nothing changes.
delete_user(user_id) ==
    /\ UNCHANGED <<files, now, flight>>
    /\ IF user_id \notin users
       THEN /\ resp' = [op |-> "delete_user", status |-> 404]
            /\ UNCHANGED <<users, questions, answers, votes, units, assignments, submissions,
                           grades>>
       ELSE LET qGone == {q \in questions : q.author_id = user_id}
                aGone == {a \in answers : a.author_id = user_id} \cup AnswersOf(answers, qGone)
                uGone == {u \in units : u.instructor_id = user_id}
                asgGone == {x \in assignments : x.unit_id \in {u.id : u \in uGone}}
                subsLeft == {x \in submissions :
                                /\ x.student_id # user_id
                                /\ x.assignment_id \notin {y.id : y \in asgGone}}
                gradesLeft == GradesLeft(grades, subsLeft)
            IN IF \E g \in gradesLeft : g.instructor_id = user_id
               THEN /\ resp' = [op |-> "delete_user", status |-> 500]
                    /\ UNCHANGED <<users, questions, answers, votes, units, assignments,
                                   submissions, grades>>
               ELSE /\ users' = users \ {user_id}
                    /\ questions' = questions \ qGone
                    /\ answers' = answers \ aGone
                    /\ votes' = {v \in VotesLeft(votes, aGone) : v.user_id # user_id}
                    /\ units' = units \ uGone
                    /\ assignments' = assignments \ asgGone
                    /\ submissions' = subsLeft
                    /\ grades' = gradesLeft
                    /\ resp' = [op |-> "delete_user", status |-> 200]

\* DELETE /units/<unit_id>: Unit.assignments (models.py line 87) and
\* Assignment.submissions (line 175) cascade.
delete_unit(unit_id) ==
    /\ UNCHANGED <<forumVars, votes, files, now, flight>>
    /\ IF Get(units, unit_id) = {}
       THEN /\ resp' = [op |-> "delete_unit", status |-> 404]
            /\ UNCHANGED <<units, assignments, submissions, grades>>
       ELSE LET asgGone == {x \in assignments : x.unit_id = unit_id}
            IN /\ units' = {u \in units : u.id # unit_id}
               /\ assignments' = assignments \ asgGone
               /\ submissions' = {x \in submissions :
                                     x.assignment_id \notin {y.id : y \in asgGone}}
               /\ grades' = GradesLeft(grades, submissions')
               /\ resp' = [op |-> "delete_unit", status |-> 200]

\* --------------------------------------------- the forum, with deletions
\* trail keeps, for a deletion that went through, the call and the votes table
\* it found.
Deleted(call) == IF resp'.status = 200
                 THEN [call |-> call, votes |-> votes, twice |-> FALSE]
                 ELSE NoTrail

CastVoteForum == \E a \in AnswerIdInputs, u \in UserIdInputs, t \in VoteTypeInputs :
    vote_answer(a, u, t) /\ trail' = NoTrail /\ UNCHANGED castLog

DeleteAnswer == \E a \in AnswerIdInputs, u \in AuthorIdInputs :
    /\ delete_answer(a, u)
    /\ trail' = Deleted([op |-> "delete_answer", id |-> a])
    /\ UNCHANGED castLog

DeleteQuestion == \E q \in 1 .. MaxQuestion + 1, u \in AuthorIdInputs :
    /\ delete_question(q, u)
    /\ trail' = Deleted([op |-> "delete_question", id |-> q])
    /\ UNCHANGED castLog

DeleteUser == \E u \in 1 .. MaxUser + 1 :
    /\ delete_user(u)
    /\ trail' = Deleted([op |-> "delete_user", id |-> u])
    /\ UNCHANGED castLog

NextForum == CastVoteForum \/ DeleteAnswer \/ DeleteQuestion \/ DeleteUser

SpecForum == Init /\ [][NextForum]_vars

\* ------------------------------------------ the gate, with deletions
\* Unit 1, taught by user MaxStudent + 1, with its assignment 1 as
\* create_assignment makes it; the students 1..MaxStudent registered.
Instructor == MaxStudent + 1

InitStore ==
    /\ users = 1 .. Instructor
    /\ questions = {} /\ answers = {} /\ votes = {}
    /\ units = {[id |-> 1, instructor_id |-> Instructor]}
    /\ assignments = {[id |-> 1, is_active |-> TRUE, due_date |-> Date(1), unit_id |-> 1]}
    /\ submissions = {}
    /\ grades = {}
    /\ files = {}
    /\ now = 0
    /\ resp = NoResp
    /\ flight = <<>>
    /\ NoHistory

DeleteUnit == \E u \in 1 .. 2 : delete_unit(u) /\ UNCHANGED histVars

NextStore == Submit \/ DeleteUser \/ DeleteUnit

SpecStore == InitStore /\ [][NextStore]_vars


\* ------------------------------------------------- the forum, rows coming
\* Integer primary key of a new row of users, questions or answers: SQLite
\* gives the row one more than the largest key in the table, so the key of a
\* deleted last row comes back.
NewRowId(ids) == IF ids = {} THEN 1 ELSE (CHOOSE n \in ids : \A k \in ids : k <= n) + 1

BodyInputs == {"", "text"}

\* POST /answers
create_answer(body, question_id, author_id) ==
    /\ UNCHANGED <<users, questions, votes, gateVars, flight>>
    /\ IF body = "" \/ question_id = 0 \/ author_id = 0
       THEN resp' = [op |-> "create_answer", status |-> 400] /\ UNCHANGED answers
       ELSE IF Get(questions, question_id) = {}
       THEN resp' = [op |-> "create_answer", status |-> 404] /\ UNCHANGED answers
       ELSE IF author_id \notin users
       THEN resp' = [op |-> "create_answer", status |-> 404] /\ UNCHANGED answers
       ELSE /\ answers' = answers \cup {[id |-> NewRowId({a.id : a \in answers}),
                                          question_id |-> question_id,
                                          author_id |-> author_id]}
            /\ resp' = [op |-> "create_answer", status |-> 201]

\* POST /questions. Titles are not part of the rows kept here: existing is what
\* the lookup at line 26 (a question of this title by this author) comes to.
create_question(title, body, author_id, existing) ==
    /\ UNCHANGED <<users, answers, votes, gateVars, flight>>
    /\ IF title = "" \/ body = "" \/ author_id = 0
       THEN resp' = [op |-> "create_question", status |-> 400] /\ UNCHANGED questions
       ELSE IF author_id \notin users
       THEN resp' = [op |-> "create_question", status |-> 404] /\ UNCHANGED questions
       ELSE IF existing
       THEN resp' = [op |-> "create_question", status |-> 400] /\ UNCHANGED questions
       ELSE /\ questions' = questions \cup {[id |-> NewRowId({q.id : q \in questions}),
                                              author_id |-> author_id]}
            /\ resp' = [op |-> "create_question", status |-> 201]

\* POST /users. Names and addresses are not part of the rows kept here: given
\* says that username, email and password all came, taken what the lookups at
\* lines 43 and 46 come to.
create_user(given, taken) ==
    /\ UNCHANGED <<questions, answers, votes, gateVars, flight>>
    /\ IF ~given \/ taken
       THEN resp' = [op |-> "create_user", status |-> 400] /\ UNCHANGED users
       ELSE /\ users' = users \cup {NewRowId(users)}
            /\ resp' = [op |-> "create_user", status |-> 201]

\* Rows come while the table's largest key stays within the ids the calls name.
CreateAnswer == \E b \in BodyInputs, q \in 0 .. MaxQuestion + 1, u \in AuthorIdInputs :
    /\ NewRowId({a.id : a \in answers}) <= MaxAnswer
    /\ create_answer(b, q, u)
    /\ UNCHANGED histVars

CreateQuestion == \E t \in BodyInputs, b \in BodyInputs, u \in AuthorIdInputs,
                     existing \in BOOLEAN :
    /\ NewRowId({q.id : q \in questions}) <= MaxQuestion
    /\ create_question(t, b, u, existing)
    /\ UNCHANGED histVars

CreateUser == \E given \in BOOLEAN, taken \in BOOLEAN :
    /\ NewRowId(users) <= MaxUser
    /\ create_user(given, taken)
    /\ UNCHANGED histVars

RemoveAnswer == \E a \in AnswerIdInputs, u \in AuthorIdInputs :
    delete_answer(a, u) /\ UNCHANGED histVars

RemoveQuestion == \E q \in 1 .. MaxQuestion + 1, u \in AuthorIdInputs :
    delete_question(q, u) /\ UNCHANGED histVars

RemoveUser == \E u \in 1 .. MaxUser + 1 : delete_user(u) /\ UNCHANGED histVars

NextBoard == \/ CastVote \/ RemoveVote
             \/ CreateAnswer \/ CreateQuestion \/ CreateUser
             \/ RemoveAnswer \/ RemoveQuestion \/ RemoveUser

SpecBoard == Init /\ [][NextBoard]_vars


\* ------------------------------------------------ the assignments of a unit
\* Here a row of assignments carries its title as well; description has no
\* part in any check and is left out.
TitleInputs == {"", "hw", " hw", "lab"}

\* str.strip() on the titles used.
Strip(title) == IF title = " hw" THEN "hw" ELSE title

DueDateInputs == {"", "soon", "2025-10-31"}

\* Lines 17-25: datetime.fromisoformat, which raises on what is no ISO date.
parse_due_date(due_date_str) ==
    IF due_date_str = "2025-10-31" THEN [ok |-> TRUE, date |-> Date(1)]
    ELSE [ok |-> FALSE, date |-> NoDate]

ALLOWED_EXTENSIONS == {"pdf", "docx", "doc", "zip"}

\* Lines 14-15
allowed_file(file) == Len(file) > 1 /\ Lower(file[Len(file)]) \in ALLOWED_EXTENSIONS

HandoutInputs == {NoFile, <<"hw", "pdf">>, <<"hw", "png">>}

\* The name a handout is saved under in uploads/assignments: the time of the
\* call before the name sent (secure_filename leaves the names used as they
\* are).
HandoutName(clock, file) == [folder |-> "assignments", stamp |-> clock, filename |-> file]

AssignmentResp(op, status, error) == [op |-> op, status |-> status, error |-> error]

\* POST /assignments
create_assignment(title, unit_id, due_date_str, file) ==
    /\ UNCHANGED <<forumVars, votes, units, submissions, grades, now, flight>>
    /\ LET due == parse_due_date(due_date_str)
           rejection ==
              IF title = "" THEN [status |-> 400, error |-> "Title is required"]
              ELSE IF unit_id = 0 THEN [status |-> 400, error |-> "unit_id is required"]
              ELSE IF due_date_str = "" THEN [status |-> 400, error |-> "due_date is required"]
              ELSE IF Get(units, unit_id) = {} THEN [status |-> 404, error |-> "Unit not found"]
              ELSE IF ~due.ok THEN [status |-> 400, error |-> "Invalid due_date format"]
              ELSE IF \E d \in assignments :
                         d.title = Strip(title) /\ d.unit_id = unit_id /\ d.is_active
              THEN [status |-> 400, error |-> "An active assignment with the same title already exists for this unit."]
              ELSE IF FilePresent(file) /\ ~allowed_file(file)
              THEN [status |-> 400, error |-> "Invalid file type"]
              ELSE [status |-> 0, error |-> ""]
       IN IF rejection.error # ""
          THEN /\ resp' = AssignmentResp("create_assignment", rejection.status, rejection.error)
               /\ UNCHANGED <<assignments, files>>
          ELSE /\ files' = IF FilePresent(file) THEN files \cup {HandoutName(now, file)}
                           ELSE files
               /\ assignments' = assignments \cup
                     {[id |-> NewRowId({a.id : a \in assignments}),
                       title |-> Strip(title),
                       due_date |-> due.date,
                       file_path |-> IF FilePresent(file) THEN <<HandoutName(now, file)>>
                                     ELSE <<>>,
                       unit_id |-> unit_id,
                       is_active |-> TRUE]}
               /\ resp' = AssignmentResp("create_assignment", 201, "")

\* The title field of a PATCH form: absent, or sent with a value.
NoTitle == [given |-> FALSE, val |-> ""]
Title(t) == [given |-> TRUE, val |-> t]

\* PATCH /assignments/<assignment_id>. A file is written at line 183, before
\* the commit; a bad due_date returns at line 177, before either.
update_assignment(assignment_id, title, due_date_str, file) ==
    /\ UNCHANGED <<forumVars, votes, units, submissions, grades, now, flight>>
    /\ IF Get(assignments, assignment_id) = {}
       THEN /\ resp' = AssignmentResp("update_assignment", 404, "Assignment not found")
            /\ UNCHANGED <<assignments, files>>
       ELSE IF due_date_str # "" /\ ~parse_due_date(due_date_str).ok
       THEN /\ resp' = AssignmentResp("update_assignment", 400, "Invalid date format")
            /\ UNCHANGED <<assignments, files>>
       ELSE /\ files' = IF FilePresent(file) THEN files \cup {HandoutName(now, file)}
                        ELSE files
            /\ assignments' =
                  {IF a.id # assignment_id THEN a
                   ELSE [a EXCEPT
                           !.title = IF title.given THEN title.val ELSE @,
                           !.due_date = IF due_date_str # ""
                                        THEN parse_due_date(due_date_str).date ELSE @,
                           !.file_path = IF FilePresent(file)
                                         THEN <<HandoutName(now, file)>> ELSE @]
                   : a \in assignments}
            /\ resp' = AssignmentResp("update_assignment", 200, "")

\* Unit 1 with its instructor, and no assignment yet.
InitCatalog ==
    /\ users = 1 .. Instructor
    /\ questions = {} /\ answers = {} /\ votes = {}
    /\ units = {[id |-> 1, instructor_id |-> Instructor]}
    /\ assignments = {}
    /\ submissions = {}
    /\ grades = {}
    /\ files = {}
    /\ now = 0
    /\ resp = NoResp
    /\ flight = <<>>
    /\ NoHistory

\* Rows come while the table's largest key stays within MaxAssignment.
CreateAssignment == \E t \in TitleInputs, u \in 0 .. 2, d \in DueDateInputs,
                       f \in HandoutInputs :
    /\ NewRowId({a.id : a \in assignments}) <= MaxAssignment
    /\ create_assignment(t, u, d, f)
    /\ UNCHANGED histVars

UpdateAssignment == \E a \in 1 .. MaxAssignment + 1,
                       t \in {NoTitle} \cup {Title(x) : x \in TitleInputs},
                       d \in DueDateInputs, f \in HandoutInputs :
    update_assignment(a, t, d, f) /\ UNCHANGED histVars

ToggleAssignment == \E a \in 1 .. MaxAssignment + 1 :
    toggle_assignment(a) /\ UNCHANGED histVars

NextCatalog == CreateAssignment \/ UpdateAssignment \/ ToggleAssignment

SpecCatalog == InitCatalog /\ [][NextCatalog]_vars


\* ------------------------------------------------------------ the grades
\* A row of grades carries id, score, submission_id and instructor_id;
\* feedback has no part in any check and is left out.
\* The score of a JSON body: absent (None), a number, or something that is no
\* number.
NoScore == [kind |-> "none", val |-> 0]
Score(n) == [kind |-> "number", val |-> n]
TextScore == [kind |-> "text", val |-> 0]

ScoreInputs == {NoScore, TextScore} \cup {Score(n) : n \in {-1, 0, 50, 100, 101}}

\* 0 <= score <= 100
ScoreInRange_OpenAbove(score) == 0 <= score

ScoreInRange(score) == 0 <= score /\ score <= 100

GradeResp(op, status, error) == [op |-> op, status |-> status, error |-> error]

\* POST /grades. Comparing what is no number with 0 raises TypeError, which the
\* server answers with 500.
create_grade(score, submission_id, instructor_id) ==
    /\ UNCHANGED <<forumVars, votes, units, assignments, submissions, files, now, flight>>
    /\ LET rejection ==
              IF score.kind = "none" \/ ~submission_id.given \/ ~instructor_id.given
              THEN [status |-> 400, error |-> "score, submission_id, and instructor_id are required"]
              ELSE IF score.kind = "text"
              THEN [status |-> 500, error |-> "TypeError"]
              ELSE IF ~ScoreInRange(score.val)
              THEN [status |-> 400, error |-> "Score must be between 0 and 100"]
              ELSE IF Get(submissions, submission_id.val) = {}
              THEN [status |-> 404, error |-> "Submission not found"]
              ELSE IF instructor_id.val \notin users
              THEN [status |-> 404, error |-> "Instructor not found"]
              ELSE IF \E g \in grades : g.submission_id = submission_id.val
              THEN [status |-> 400, error |-> "This submission has already been graded"]
              ELSE [status |-> 0, error |-> ""]
       IN IF rejection.error # ""
          THEN /\ resp' = GradeResp("create_grade", rejection.status, rejection.error)
               /\ UNCHANGED grades
          ELSE /\ grades' = grades \cup {[id |-> NewRowId({g.id : g \in grades}),
                                          score |-> score.val,
                                          submission_id |-> submission_id.val,
                                          instructor_id |-> instructor_id.val]}
               /\ resp' = GradeResp("create_grade", 201, "")

\* PATCH /grades/<grade_id>
update_grade(grade_id, score) ==
    /\ UNCHANGED <<forumVars, votes, units, assignments, submissions, files, now, flight>>
    /\ IF Get(grades, grade_id) = {}
       THEN resp' = GradeResp("update_grade", 404, "Grade not found") /\ UNCHANGED grades
       ELSE IF score.kind = "text"
       THEN resp' = GradeResp("update_grade", 500, "TypeError") /\ UNCHANGED grades
       ELSE IF score.kind = "number" /\ ~ScoreInRange(score.val)
       THEN /\ resp' = GradeResp("update_grade", 400, "Score must be between 0 and 100")
            /\ UNCHANGED grades
       ELSE /\ grades' = {IF g.id = grade_id /\ score.kind = "number"
                          THEN [g EXCEPT !.score = score.val] ELSE g : g \in grades}
            /\ resp' = GradeResp("update_grade", 200, "")

\* DELETE /grades/<grade_id>
delete_grade(grade_id) ==
    /\ UNCHANGED <<forumVars, votes, units, assignments, submissions, files, now, flight>>
    /\ IF Get(grades, grade_id) = {}
       THEN resp' = GradeResp("delete_grade", 404, "Grade not found") /\ UNCHANGED grades
       ELSE /\ grades' = {g \in grades : g.id # grade_id}
            /\ resp' = GradeResp("delete_grade", 200, "")

\* The store of InitStore after student 1 has handed in MaxSubmission essays
\* for assignment 1; nothing graded yet.
InitGrades ==
    /\ users = 1 .. Instructor
    /\ questions = {} /\ answers = {} /\ votes = {}
    /\ units = {[id |-> 1, instructor_id |-> Instructor]}
    /\ assignments = {[id |-> 1, is_active |-> TRUE, due_date |-> Date(1), unit_id |-> 1]}
    /\ submissions = {[id |-> n, student_id |-> 1, assignment_id |-> 1, content |-> "essay",
                       file_path |-> <<>>] : n \in 1 .. MaxSubmission}
    /\ grades = {}
    /\ files = {}
    /\ now = 0
    /\ resp = NoResp
    /\ flight = <<>>
    /\ NoHistory

SubmissionIdInputs == {NoId} \cup {Id(n) : n \in 1 .. MaxSubmission + 1}
InstructorIdInputs == {NoId, Id(Instructor), Id(Instructor + 1)}

\* Rows come while the table's largest key stays within MaxGrade.
CreateGrade == \E sc \in ScoreInputs, s \in SubmissionIdInputs, i \in InstructorIdInputs :
    /\ NewRowId({g.id : g \in grades}) <= MaxGrade
    /\ create_grade(sc, s, i)
    /\ UNCHANGED histVars

UpdateGrade == \E g \in 1 .. MaxGrade + 1, sc \in ScoreInputs :
    update_grade(g, sc) /\ UNCHANGED histVars

DeleteGrade == \E g \in 1 .. MaxGrade + 1 : delete_grade(g) /\ UNCHANGED histVars

NextGrades == CreateGrade \/ UpdateGrade \/ DeleteGrade

SpecGrades == InitGrades /\ [][NextGrades]_vars

\* ------------------------------------------------------------------ claims
\* C1: after any sequence of vote_answer and remove_vote calls run one at a
\* time, at most one Vote row exists for every (user_id, answer_id) pair.
C1_AtMostOneVotePerPair ==
    \A u \in UserIdInputs, a \in AnswerIdInputs :
        Cardinality(VotesOfPair(votes, u, a)) <= 1

\* A vote was switched, and every pair holds a vote.
C1_Witness ==
    /\ resp.op = "vote_answer" /\ resp.outcome = "changed"
    /\ \A p \in Pairs : Cardinality(VotesOfPair(votes, p[1], p[2])) = 1

\* The three outcomes of a valid vote_answer(user, answer, t) call: it creates a vote of type t when
\* the pair has none (201, added), deletes the pair's vote when it has type t
\* (200, removed), and otherwise overwrites the type of that same row to t
\* without adding or deleting a row (200, changed); after a switch the pair
\* counts one vote of type t and none of the other type.
C5_Effect(a, u, t) ==
    LET mine == VotesOfPair(votes, u, a)
    IN /\ mine = {} =>
            /\ resp' = VoteResp(201, "added", t)
            /\ \E v \in votes' \ votes :
                  /\ votes' = votes \cup {v}
                  /\ v.user_id = u /\ v.answer_id = a /\ v.vote_type = t
       /\ (\E v \in mine : v.vote_type = t) =>
            /\ resp' = VoteResp(200, "removed", t)
            /\ votes' = votes \ mine
       /\ (\E v \in mine : v.vote_type # t) =>
            /\ resp' = VoteResp(200, "changed", t)
            /\ \E v \in mine :
                  votes' = (votes \ {v}) \cup {[v EXCEPT !.vote_type = t]}
            /\ {v.id : v \in votes'} = {v.id : v \in votes}
            /\ Cardinality({v \in VotesOfPair(votes', u, a) : v.vote_type = t}) = 1
            /\ {v \in VotesOfPair(votes', u, a) : v.vote_type # t} = {}

\* C5: every valid vote_answer call has the outcome its pair's state selects
\* among created, removed and switched; a switch overwrites the same row, so
\* an up then a down cast leave one down vote and no up vote for the pair.
C5_CastOutcomes ==
    [][\A a \in AnswerIdInputs, u \in UserIdInputs, t \in {"up", "down"} :
          (Get(answers, a) # {} /\ u \in users /\ vote_answer(a, u, t))
              => C5_Effect(a, u, t)]_vars

\* An up vote was switched to a down vote.
C5_Witness ==
    /\ resp = VoteResp(200, "changed", "down")
    /\ \E v \in votes : v.vote_type = "down"
    /\ \E v \in votes : v.vote_type = "up"

\* C8: for an existing answer get_votes returns the number of up rows, the
\* number of down rows and their difference; for a missing one, 404.
C8_TallyCounts ==
    resp.op = "get_votes" =>
        IF \E a \in answers : a.id = resp.answer_id
        THEN /\ resp.status = 200
             /\ resp.upvotes =
                  Cardinality({v \in votes : v.answer_id = resp.answer_id /\ v.vote_type = "up"})
             /\ resp.downvotes =
                  Cardinality({v \in votes : v.answer_id = resp.answer_id /\ v.vote_type = "down"})
             /\ resp.total_score = resp.upvotes - resp.downvotes
        ELSE resp.status = 404

\* A tally with a negative score, of an answer voted both up and down.
C8_Witness ==
    /\ resp.op = "get_votes" /\ resp.status = 200
    /\ resp.total_score < 0

\* C9: get_top_answers returns its answers in non-increasing score order.
C9_RankNonIncreasing ==
    resp.op = "get_top_answers" =>
        \A i \in 1 .. Len(resp.answers) - 1 :
            resp.answers[i].score >= resp.answers[i + 1].score

\* A ranking of answers of different scores.
C9_Witness ==
    /\ resp.op = "get_top_answers"
    /\ Len(resp.answers) >= 2
    /\ resp.answers[1].score > resp.answers[Len(resp.answers)].score
    /\ resp.answers[1].answer_id > resp.answers[Len(resp.answers)].answer_id


\* C6: after any sequence of casts by a user on an answer, the pair's vote, when
\* one exists, has the vote_type cast last, and no vote exists when the casts of
\* that type at the end of the sequence cancelled out in twos.
C6_VoteFollowsLastCast ==
    \A p \in Pairs :
        LET run == castLog[p]
            mine == VotesOfPair(votes, p[1], p[2])
        IN /\ \A v \in mine : v.vote_type = run.vote_type
           /\ (run.vote_type # "" /\ ~run.odd) => mine = {}
           /\ run.odd => mine # {}

\* One pair's casts (down, down) cancelled out while another pair, after an
\* up and a down cast, holds its vote.
C6_Witness ==
    \E p, q \in Pairs :
        /\ castLog[p] = [vote_type |-> "down", odd |-> FALSE]
        /\ VotesOfPair(votes, p[1], p[2]) = {}
        /\ castLog[q] = [vote_type |-> "down", odd |-> TRUE]
        /\ \E v \in VotesOfPair(votes, q[1], q[2]) : v.vote_type = "down"
        /\ resp = VoteResp(200, "changed", "down")

\* C7: from a state with no vote for the pair, the same vote_type cast twice in
\* a row is answered removed the second time and leaves the votes table as it
\* was before the first cast (no vote of the pair counts in the tally).
C7_SameTwiceRestores ==
    [][\A a \in AnswerIdInputs, u \in UserIdInputs, t \in VoteTypeInputs :
          (/\ trail.call = [op |-> "vote_answer", answer_id |-> a, user_id |-> u,
                            vote_type |-> t]
           /\ vote_answer(a, u, t))
          => /\ resp' = VoteResp(200, "removed", t)
             /\ votes' = trail.votes
             /\ VotesOfPair(votes', u, a) = {}
             /\ Tally(votes', a) = Tally(trail.votes, a)]_vars

\* The second of two equal casts has removed the vote it created, the votes of
\* other pairs standing as they were.
C7_Witness ==
    /\ trail.twice
    /\ resp = VoteResp(200, "removed", "up")
    /\ votes = trail.votes
    /\ votes # {}


GatePairs == (0 .. MaxStudent + 1) \X (1 .. 2)

\* C2: run one at a time, submit_assignment never leaves a (student_id,
\* assignment_id) pair with more than 3 Submission rows, and a call made when
\* the pair has 3 creates none.
C2_AttemptCap ==
    /\ [](\A p \in GatePairs :
            Cardinality(SubmissionsOfPair(submissions, p[1], p[2])) <= MaxAttempts)
    /\ [][\A s \in StudentIdInputs, a \in AssignmentIdInputs, c \in ContentInputs,
            f \in FileInputs :
            (/\ Cardinality(SubmissionsOfPair(submissions, s.val, a.val)) = MaxAttempts
             /\ submit_assignment(s, a, c, f))
            => submissions' = submissions /\ files' = files /\ resp'.status # 201]_vars

\* A pair holds 3 submissions and a further call was turned away at the limit.
C2_Witness ==
    /\ \E p \in GatePairs : Cardinality(SubmissionsOfPair(submissions, p[1], p[2])) = 3
    /\ resp = SubmitResp(400, "You have reached the maximum of 3 submission attempts", 0)

\* C10: the checks of the claim, in its order, each with the outcome it reports.
C10_Fails(k, s, a, c, f) ==
    LET found == {x \in assignments : a.given /\ x.id = a.val}
        assignment == CHOOSE x \in found : TRUE
    IN CASE k = 1 -> found = {}
         [] k = 2 -> found # {} /\ ~assignment.is_active
         [] k = 3 -> found # {} /\ ~assignment.due_date.set
         [] k = 4 -> found # {} /\ assignment.due_date.set /\ now > assignment.due_date.at
         [] k = 5 -> ~(s.given /\ s.val \in users)
         [] k = 6 -> a.given /\ s.given
                     /\ Cardinality(SubmissionsOfPair(submissions, s.val, a.val)) >= 3
         [] k = 7 -> c = "" /\ f \in {NoFile, <<"">>}
         [] k = 8 -> f \notin {NoFile, <<"">>} /\ Ext(f) \notin allowed_ext

C10_Outcome(k) ==
    CASE k = 1 -> "Assignment not found"
      [] k = 2 -> "Assignment is not active"
      [] k = 3 -> "Assignment due_date not set"
      [] k = 4 -> "Submission deadline has passed"
      [] k = 5 -> "Student not found"
      [] k = 6 -> "You have reached the maximum of 3 submission attempts"
      [] k = 7 -> "You must submit either text content or a file"
      [] k = 8 -> "Invalid file type"

\* The outcome of the earliest failing check, or acceptance when none fails.
C10_Earliest(s, a, c, f) ==
    LET failing == {k \in 1 .. 8 : C10_Fails(k, s, a, c, f)}
    IN IF failing = {} THEN "Submission successful"
       ELSE C10_Outcome(CHOOSE k \in failing : \A j \in failing : k <= j)

\* C10 as claimed: every call reports the earliest failing check of the eight.
C10_EightChecksInOrder ==
    [][\A s \in StudentIdInputs, a \in AssignmentIdInputs, c \in ContentInputs,
         f \in FileInputs :
         submit_assignment(s, a, c, f) => resp'.outcome = C10_Earliest(s, a, c, f)]_vars

\* C10, amended: a call that lacks student_id or assignment_id is turned away
\* first, as a validation error; every other call reports the earliest failing
\* check of the eight, in the claim's order.
C10_RequiredThenEightChecks ==
    [][\A s \in StudentIdInputs, a \in AssignmentIdInputs, c \in ContentInputs,
         f \in FileInputs :
         submit_assignment(s, a, c, f) =>
            IF ~s.given \/ ~a.given
            THEN resp' = SubmitResp(400, "student_id and assignment_id are required", 0)
            ELSE resp'.outcome = C10_Earliest(s, a, c, f)]_vars

\* A call was reported inactive while the pair's limit was reached (or the
\* student missing) and the deadline had passed: several checks failed at once.
C10_Witness ==
    /\ resp = SubmitResp(400, "Assignment is not active", 0)
    /\ \A x \in assignments : ~x.is_active /\ x.due_date.set /\ now > x.due_date.at
    /\ Cardinality(SubmissionsOfPair(submissions, 1, 1)) = 3



\* C3: of two submit_assignment calls of a pair that has 2 submissions, their
\* count and insert steps interleaved, only one gets past the attempt-limit
\* check (the other is rejected there), and no pair ever holds more than 3
\* Submission rows.
C3_RaceAdmitsOne ==
    /\ \A v, w \in Workers :
          (/\ v # w
           /\ flight[v].pc = "submit_assignment" /\ flight[w].pc = "submit_assignment"
           /\ flight[v].student_id = flight[w].student_id
           /\ flight[v].assignment_id = flight[w].assignment_id)
          => ~(flight[v].attempts = 2 /\ flight[w].attempts = 2)
    /\ \A p \in GatePairs :
          Cardinality(SubmissionsOfPair(submissions, p[1], p[2])) <= MaxAttempts

\* C4: with vote_answer calls of one pair interleaved between lookup and write,
\* at most one Vote row exists for the pair in every state.
C4_RaceKeepsOneVote ==
    \A p \in Pairs : Cardinality(VotesOfPair(votes, p[1], p[2])) <= 1


\* The assignment a call names, past its due date.
PastDue(a) ==
    \E x \in assignments : a.given /\ x.id = a.val /\ x.due_date.set /\ now > x.due_date.at

\* C11 as claimed: every call naming an assignment whose due_date is in the
\* past is answered with the past-deadline rejection.
C11_PastDueAlwaysRejected ==
    [][\A s \in StudentIdInputs, a \in AssignmentIdInputs, c \in ContentInputs,
         f \in FileInputs :
         (PastDue(a) /\ submit_assignment(s, a, c, f))
         => resp' = SubmitResp(400, "Submission deadline has passed", 0)]_vars

\* C11, amended: every call that gives a student_id and names an active
\* assignment whose due_date is in the past is answered with the past-deadline
\* rejection, whatever its content and file (and whoever the student is).
C11_ActivePastDueRejected ==
    [][\A s \in StudentIdInputs, a \in AssignmentIdInputs, c \in ContentInputs,
         f \in FileInputs :
         (/\ s.given
          /\ PastDue(a)
          /\ \A x \in assignments : x.id = a.val => x.is_active
          /\ submit_assignment(s, a, c, f))
         => resp' = SubmitResp(400, "Submission deadline has passed", 0)]_vars

\* A call was turned away for the deadline of an active assignment that
\* already has submissions.
C11_Witness ==
    /\ resp = SubmitResp(400, "Submission deadline has passed", 0)
    /\ \A x \in assignments : x.is_active /\ x.due_date.set /\ now > x.due_date.at
    /\ submissions # {}

\* C12 as claimed: a call of a pair that has 3 submissions is answered with
\* the attempt-limit rejection.
C12_FourthAlwaysAtLimit ==
    [][\A s \in StudentIdInputs, a \in AssignmentIdInputs, c \in ContentInputs,
         f \in FileInputs :
         (/\ s.given /\ a.given
          /\ Cardinality(SubmissionsOfPair(submissions, s.val, a.val)) = 3
          /\ submit_assignment(s, a, c, f))
         => resp' = SubmitResp(400, "You have reached the maximum of 3 submission attempts", 0)]_vars

\* C12, amended: while the assignment is active and its deadline has not
\* passed, a call of a pair that has 3 submissions is answered with the
\* attempt-limit rejection, whatever its content and file.
C12_FourthAtLimitWhileOpen ==
    [][\A s \in StudentIdInputs, a \in AssignmentIdInputs, c \in ContentInputs,
         f \in FileInputs :
         (/\ s.given /\ a.given
          /\ Cardinality(SubmissionsOfPair(submissions, s.val, a.val)) = 3
          /\ \A x \in assignments :
                x.id = a.val => x.is_active /\ x.due_date.set /\ now <= x.due_date.at
          /\ submit_assignment(s, a, c, f))
         => resp' = SubmitResp(400, "You have reached the maximum of 3 submission attempts", 0)]_vars

\* A fourth call was turned away at the limit while the assignment was open,
\* the pair's three submissions being a text, a file and a text with a file.
C12_Witness ==
    /\ resp = SubmitResp(400, "You have reached the maximum of 3 submission attempts", 0)
    /\ \A x \in assignments : x.is_active /\ x.due_date.set /\ now <= x.due_date.at
    /\ Cardinality(SubmissionsOfPair(submissions, 1, 1)) = 3
    /\ \E x, y \in submissions : x.file_path = <<>> /\ y.content = ""

\* C13: a submit_assignment call that ends in a rejection creates no Submission
\* row and stores no file; a row or a file is written only by a call that
\* gives both ids and fails none of the checks, and that call is accepted.
C13_RejectionWritesNothing ==
    [][\A s \in StudentIdInputs, a \in AssignmentIdInputs, c \in ContentInputs,
         f \in FileInputs :
         submit_assignment(s, a, c, f) =>
            /\ resp'.status # 201 => submissions' = submissions /\ files' = files
            /\ (submissions' # submissions \/ files' # files) =>
                  /\ resp'.status = 201
                  /\ s.given /\ a.given
                  /\ \A k \in 1 .. 8 : ~C10_Fails(k, s, a, c, f)]_vars

\* A file of a type not allowed was turned away, the store holding the rows and
\* the files of earlier submissions.
C13_Witness ==
    /\ resp = SubmitResp(400, "Invalid file type", 0)
    /\ submissions # {}
    /\ files # {}


\* The Vote rows that are not of the pair.
VotesOfOthers(vs, u, a) == {v \in vs : ~(v.user_id = u /\ v.answer_id = a)}

\* C14: a successful vote_answer call creates, deletes or mutates exactly one
\* Vote row, a row of the calling pair, and leaves the Vote rows of every other
\* pair and all User, Answer and Question rows as they were.
C14_OneVoteTouched ==
    [][\A a \in AnswerIdInputs, u \in UserIdInputs, t \in VoteTypeInputs :
          (vote_answer(a, u, t) /\ resp'.status \in {200, 201}) =>
             /\ \/ \E v \in votes' \ votes :
                      /\ votes' = votes \cup {v}
                      /\ v.user_id = u /\ v.answer_id = a
                      /\ \A w \in votes : w.id # v.id
                \/ \E v \in votes \ votes' :
                      /\ votes' = votes \ {v}
                      /\ v.user_id = u /\ v.answer_id = a
                \/ \E v \in votes, w \in votes' :
                      /\ v # w /\ v.id = w.id
                      /\ votes' = (votes \ {v}) \cup {w}
                      /\ v.user_id = u /\ v.answer_id = a
                      /\ w.user_id = u /\ w.answer_id = a
             /\ VotesOfOthers(votes', u, a) = VotesOfOthers(votes, u, a)
             /\ users' = users /\ answers' = answers /\ questions' = questions]_vars

\* A user took their vote back from an answer another user's vote stands on.
C14_Witness ==
    /\ resp.op = "vote_answer" /\ resp.outcome = "removed"
    /\ \E a \in 1 .. MaxAnswer :
          /\ VotesOfPair(votes, 1, a) = {}
          /\ VotesOfPair(votes, 2, a) # {}

\* C15: vote_answer answers with a validation error (400) when user_id or
\* vote_type is absent or vote_type is neither up nor down, and otherwise with a
\* not-found error (404) naming the answer or the user that does not exist; in
\* each of these cases the votes table is left as it was.
C15_VoteErrors ==
    [][\A a \in AnswerIdInputs, u \in UserIdInputs, t \in VoteTypeInputs :
          vote_answer(a, u, t) =>
             LET invalid == u = 0 \/ t \notin {"up", "down"}
                 noAnswer == \A x \in answers : x.id # a
                 noUser == u \notin users
             IN /\ invalid =>
                      /\ resp'.status = 400
                      /\ resp'.outcome \in {"user_id and vote_type are required",
                                            "vote_type must be 'up' or 'down'"}
                      /\ votes' = votes
                /\ (~invalid /\ (noAnswer \/ noUser)) =>
                      /\ resp'.status = 404
                      /\ resp'.outcome \in
                            (IF noAnswer THEN {"Answer not found"} ELSE {})
                            \cup (IF noUser THEN {"User not found"} ELSE {})
                      /\ votes' = votes
                /\ (~invalid /\ ~noAnswer /\ ~noUser) => resp'.status \in {200, 201}]_vars

\* A vote by a user who does not exist was turned away, votes standing.
C15_Witness ==
    /\ resp = VoteResp(404, "User not found", "")
    /\ votes # {}

\* C16: a remove_vote call naming a pair (user_id, answer_id) that has no vote
\* answers not found (404) and
\* changes nothing; of a pair that has one, it deletes the pair's vote, up or
\* down, and leaves the votes of every other pair as they were.
C16_RemoveVote ==
    [][\A a \in AnswerIdInputs, u \in UserIdInputs \ {0} :
          remove_vote(a, u) =>
             IF VotesOfPair(votes, u, a) = {}
             THEN resp'.status = 404 /\ votes' = votes
             ELSE /\ resp'.status = 200
                  /\ VotesOfPair(votes', u, a) = {}
                  /\ VotesOfOthers(votes', u, a) = VotesOfOthers(votes, u, a)
                  /\ votes' \subseteq votes]_vars

\* A vote was removed from an answer on which another user's down vote stands.
C16_Witness ==
    /\ resp = [op |-> "remove_vote", status |-> 200]
    /\ \E a \in 1 .. MaxAnswer :
          /\ VotesOfPair(votes, 2, a) = {}
          /\ \E v \in VotesOfPair(votes, 1, a) : v.vote_type = "down"


\* C17: the order get_top_answers returns does not depend on the order in which
\* the store yields the answers: whatever that order, the response is the same
\* (answers of equal score are put in an order of their own).
C17_OrderIndependentOfStore ==
    [][\A q \in QuestionIdInputs :
          get_top_answers(q) =>
             \A order \in AllOrders(Candidates(answers, q)) :
                resp'.answers =
                   SortedByScore([i \in 1 .. Len(order) |-> RankEntry(votes, order[i])])]_vars

\* C18: get_top_answers returns exactly the answers whose question_id equals
\* the question_id given, every answer when none is given, and total_answers
\* is the number of answers returned.
C18_FilterByQuestion ==
    [][\A q \in QuestionIdInputs :
          get_top_answers(q) =>
             LET expected == IF q.given THEN {a \in answers : a.question_id = q.val}
                             ELSE answers
             IN /\ {resp'.answers[i].answer_id : i \in 1 .. Len(resp'.answers)} =
                      {a.id : a \in expected}
                /\ Len(resp'.answers) = Cardinality(expected)
                /\ resp'.total_answers = Len(resp'.answers)]_vars


\* C19: a step that deletes an Answer, by delete_answer or through
\* delete_question, deletes the Vote rows of that answer with it: no Vote
\* refers to an answer that is gone.
C19_AnswerTakesVotes ==
    /\ [](\A v \in votes : \E a \in answers : a.id = v.answer_id)
    /\ [][\A a \in answers :
            a \notin answers' => \A v \in votes' : v.answer_id # a.id]_vars

\* A question was deleted whose answer had a vote; answer and vote are gone,
\* while a vote on another answer stands.
C19_Witness ==
    /\ resp = [op |-> "delete_question", status |-> 200]
    /\ trail.call.op = "delete_question"
    /\ \E v \in trail.votes :
          /\ \A a \in answers : a.id # v.answer_id
          /\ \A w \in votes : w.answer_id # v.answer_id
    /\ votes # {}


\* C20 as claimed: a Submission row is never modified, and a step removes one
\* only when it removes the row's Assignment.
C20_RemovedOnlyWithAssignment ==
    [][\A x \in submissions :
          \/ x \in submissions'
          \/ /\ \A y \in submissions' : y.id # x.id
             /\ \A a \in assignments' : a.id # x.assignment_id]_vars

\* C20, amended: a Submission row is never modified, and a step removes one
\* only when it removes the row's Assignment or the row's student (delete_user
\* deletes the user's submissions with the user).
C20_RemovedOnlyWithParent ==
    [][\A x \in submissions :
          \/ x \in submissions'
          \/ /\ \A y \in submissions' : y.id # x.id
             /\ \/ \A a \in assignments' : a.id # x.assignment_id
                \/ x.student_id \notin users']_vars

\* Student 1, who had submitted a file, was deleted: their submissions are
\* gone while the assignment stands, with another user's submissions.
C20_Witness ==
    /\ resp = [op |-> "delete_user", status |-> 200]
    /\ 1 \notin users
    /\ \E f \in files : f.student = 1
    /\ \A x \in submissions : x.student_id # 1
    /\ assignments # {}
    /\ submissions # {}


\* C22: an accepted submit_assignment call adds exactly one Submission row, of
\* the pair given, and reports the attempt number n + 1, n being the number of
\* the pair's rows before the call; the number is between 1 and 3 and is the
\* one in the name of the file stored.
C22_AttemptNumber ==
    [][\A s \in StudentIdInputs, a \in AssignmentIdInputs, c \in ContentInputs,
         f \in FileInputs :
         (submit_assignment(s, a, c, f) /\ resp'.status = 201) =>
            LET n == Cardinality(SubmissionsOfPair(submissions, s.val, a.val))
            IN /\ resp'.attempt = n + 1
               /\ resp'.attempt \in 1 .. 3
               /\ \E x \in submissions' \ submissions :
                     /\ submissions' = submissions \cup {x}
                     /\ \A y \in submissions : y.id # x.id
                     /\ x.student_id = s.val /\ x.assignment_id = a.val
                     /\ IF f \in {NoFile, <<"">>}
                        THEN x.file_path = <<>> /\ files' = files
                        ELSE /\ Len(x.file_path) = 1
                             /\ x.file_path[1].attempt = resp'.attempt
                             /\ x.file_path[1].filename = f
                             /\ files' = files \cup {x.file_path[1]}]_vars

\* The third attempt of a pair was accepted, with a file named for attempt 3.
C22_Witness ==
    /\ resp = SubmitResp(201, "Submission successful", 3)
    /\ \E x \in submissions : x.file_path # <<>> /\ x.file_path[1].attempt = 3


\* C23: the deadline check is inclusive. A submit_assignment call that reaches
\* it (required fields given, assignment found, active, due_date set) is not
\* rejected as past the deadline when the clock equals due_date, and is accepted
\* there if nothing later fails; at any later clock value it is rejected as past
\* the deadline.
C23_DeadlineInclusive ==
    [][\A s \in StudentIdInputs, a \in AssignmentIdInputs, c \in ContentInputs,
         f \in FileInputs, x \in assignments :
         (/\ submit_assignment(s, a, c, f)
          /\ s.given /\ a.given /\ x.id = a.val /\ x.is_active /\ x.due_date.set)
         => /\ now > x.due_date.at
                 <=> resp' = SubmitResp(400, "Submission deadline has passed", 0)
            /\ (/\ now = x.due_date.at
                /\ s.val \in users
                /\ Cardinality(SubmissionsOfPair(submissions, s.val, a.val)) < MaxAttempts
                /\ c # "" /\ f = NoFile)
               => resp'.status = 201]_vars

\* A call was accepted while the clock stood exactly at the due date.
C23_Witness ==
    /\ resp.status = 201
    /\ trail.call.op = "submit_assignment"
    /\ \E x \in assignments :
          /\ trail.call.assignment_id = Id(x.id)
          /\ x.due_date.set /\ trail.call.at = x.due_date.at


\* A file name has an extension if a dot splits it and something follows the
\* last dot.
HasExtension(file) == Len(file) > 1 /\ file[Len(file)] # ""

\* C24: a submit_assignment call with a file present that passes every earlier
\* check is accepted only if the file's name has an extension and that
\* extension, compared case-insensitively, is one of pdf, docx, jpg, jpeg, png;
\* otherwise it is rejected as an invalid file type.
C24_ExtensionRequired ==
    [][\A s \in StudentIdInputs, a \in AssignmentIdInputs, c \in ContentInputs,
         f \in FileNameInputs :
         (/\ submit_assignment(s, a, c, f)
          /\ FilePresent(f)
          /\ resp' \in {SubmitResp(201, "Submission successful", n) : n \in 1 .. MaxAttempts}
                       \cup {SubmitResp(400, "Invalid file type", 0)})
         => (resp'.status = 201 <=> HasExtension(f) /\ Lower(f[Len(f)]) \in allowed_ext)]_vars


\* C26: for one (student, assignment) pair, with no deletion in between, the
\* accepted submit_assignment calls report 1, 2, 3 in that order: each accepted
\* call reports one more than the number of calls accepted before it (the
\* pair's rows, which no step takes away), no number is reported twice, and a
\* call answered with the attempt-limit rejection found three of them, after
\* which no call of the pair is accepted.
C26_AttemptsInOrder ==
    /\ [][\A p \in GatePairs :
            SubmissionsOfPair(submissions, p[1], p[2])
               \subseteq SubmissionsOfPair(submissions', p[1], p[2])]_vars
    /\ [][\A s \in StudentIdInputs, a \in AssignmentIdInputs, c \in ContentInputs,
            f \in FileInputs :
            (submit_assignment(s, a, c, f) /\ s.given /\ a.given) =>
               LET n == Cardinality(SubmissionsOfPair(submissions, s.val, a.val))
                   after == Cardinality(SubmissionsOfPair(submissions', s.val, a.val))
               IN /\ resp'.status = 201 => resp'.attempt = n + 1 /\ after = n + 1
                  /\ resp'.status # 201 => after = n
                  /\ resp' = SubmitResp(400, "You have reached the maximum of 3 submission attempts", 0)
                        => n = MaxAttempts
                  /\ n >= MaxAttempts => resp'.status # 201]_vars

\* The pair's three attempts were accepted, each with a file, and the call
\* after them was turned away at the limit.
C26_Witness ==
    /\ resp = SubmitResp(400, "You have reached the maximum of 3 submission attempts", 0)
    /\ \E p \in GatePairs :
          \A n \in 1 .. MaxAttempts :
             \E x \in SubmissionsOfPair(submissions, p[1], p[2]) :
                x.file_path # <<>> /\ x.file_path[1].attempt = n


\* C27: every entry of a get_top_answers response names an answer that exists
\* and carries the upvotes, downvotes and score that get_votes computes for that
\* answer from the same votes table (score being get_votes' total_score).
C27_EntriesMatchGetVotes ==
    resp.op = "get_top_answers" =>
        \A i \in 1 .. Len(resp.answers) :
            LET e == resp.answers[i]
                t == Tally(votes, e.answer_id)
            IN /\ Get(answers, e.answer_id) # {}
               /\ e.upvotes = t.upvotes
               /\ e.downvotes = t.downvotes
               /\ e.score = t.total_score

\* A ranking holding an answer voted both up and down.
C27_Witness ==
    /\ resp.op = "get_top_answers"
    /\ \E i \in 1 .. Len(resp.answers) :
          resp.answers[i].upvotes >= 1 /\ resp.answers[i].downvotes >= 1


\* The assignments table with every assignment switched on.
AllActive(asg) == {[x EXCEPT !.is_active = TRUE] : x \in asg}

C30_CheckOrder ==
    [][\A a \in AnswerIdInputs, u \in UserIdInputs, t \in VoteTypeInputs :
          vote_answer(a, u, t) =>
             LET noAnswer == \A x \in answers : x.id # a
                 noUser == u \notin users
             IN /\ t \notin {"up", "down"} =>
                      resp' = VoteResp(400, IF u = 0 \/ t = ""
                                            THEN "user_id and vote_type are required"
                                            ELSE "vote_type must be 'up' or 'down'", "")
                /\ (u # 0 /\ t \in {"up", "down"} /\ noAnswer) =>
                      resp' = VoteResp(404, "Answer not found", "")
                /\ resp' = VoteResp(404, "User not found", "") =>
                      u # 0 /\ t \in {"up", "down"} /\ ~noAnswer /\ noUser]_vars

\* A valid vote was cast when no answer and no user existed, and was answered
\* with the answer's not-found error.
C30_Witness ==
    /\ users = {} /\ answers = {}
    /\ resp = VoteResp(404, "Answer not found", "")


\* C25: in every state that vote, answer, question and user operations lead
\* to, creations and deletions included, every row of votes names a user that
\* exists and an answer that exists, and its vote_type is up or down.
C25_VotesReferToRows ==
    \A v \in votes :
        /\ v.user_id \in users
        /\ Get(answers, v.answer_id) # {}
        /\ v.vote_type \in {"up", "down"}

\* A user who had voted was deleted and the key came back with a new user,
\* while votes of others stand.
C25_Witness ==
    /\ resp = [op |-> "create_user", status |-> 201]
    /\ users = 1 .. MaxUser
    /\ votes # {}
    /\ \E u \in users : \A v \in votes : v.user_id # u
    /\ Cardinality(answers) < MaxAnswer


\* C21: after any sequence of create_assignment, update_assignment and
\* toggle_assignment calls, no two active assignments of a unit carry the same
\* title.
C21_OneActivePerTitle ==
    \A x, y \in assignments :
        (x.is_active /\ y.is_active /\ x.title = y.title /\ x.unit_id = y.unit_id)
           => x = y


\* C29: after any sequence of create_grade, update_grade and delete_grade
\* calls run one at a time, no submission has two grades and every grade's
\* score lies in 0..100; a create_grade call naming a submission that has a
\* grade is rejected (with "already graded" when nothing before that check
\* fails) and leaves the grades as they were.
C29_OneGradeInRange ==
    /\ [](\A g, h \in grades :
             /\ g.score >= 0 /\ g.score <= 100
             /\ g.submission_id = h.submission_id => g = h)
    /\ [][\A sc \in ScoreInputs, s \in SubmissionIdInputs, i \in InstructorIdInputs :
            (create_grade(sc, s, i) /\ \E g \in grades : g.submission_id = s.val) =>
               /\ resp'.status \in {400, 404, 500}
               /\ grades' = grades
               /\ UNCHANGED submissions
               /\ (sc.kind = "number" /\ sc.val \in 0 .. 100 /\ i.given /\ i.val \in users)
                     => resp' = GradeResp("create_grade", 400,
                                          "This submission has already been graded")]_vars

\* Both submissions stand graded, one at each end of the range, and a further
\* create_grade for one of them was turned away.
C29_Witness ==
    /\ resp = GradeResp("create_grade", 400, "This submission has already been graded")
    /\ \E g, h \in grades : g.score = 0 /\ h.score = 100
    /\ \A x \in submissions : \E g \in grades : g.submission_id = x.id

=============================================================================
